---- MODULE Spec2Model ----
(***************************************************************************)
(* The iterating VRL functions for_each and map_values (their interpreter  *)
(* entry point resolve, their VM entry point call_by_vm and their static   *)
(* type_def) and RequestMetadata::from_batch, as one state machine.  Each  *)
(* behaviour is one invocation of one entry point on one input.            *)
(***************************************************************************)
EXTENDS Integers, Sequences, FiniteSets, TLC

VARIABLES
    entry,            \* the entry point invoked: resolve, type_def, call_by_vm, from_batch
    pc,               \* position inside the entry point
    node,             \* the compiled node (ForEachFn / MapValuesFn): fn, value, recursive, closure
    ctx,              \* the scope threaded through resolve
    ctx0,             \* the scope as it was when resolve was entered
    recursive,        \* MapValuesFn::resolve's local `recursive`
    iter,             \* the ValueIter held by resolve
    result,           \* what the entry point returned (or that it panicked)
    calls,            \* the closure invocations made so far, in order
    trace,            \* the operand expressions evaluated so far, in order
    metadata_vec,     \* from_batch's argument
    overflow_checks,  \* whether the build traps integer overflow
    acc,              \* from_batch's four running sums
    idx               \* from_batch's loop position

vars == <<entry, pc, node, ctx, ctx0, recursive, iter, result, calls, trace,
          metadata_vec, overflow_checks, acc, idx>>

\* ------------------------------------------------------------------ bounds

\* longest generated array / object
MaxLen == 2
\* longest batch handed to from_batch
MaxBatch == 2
\* width of usize in the model
UsizeBits == 3

RECURSIVE Pow2(_)
Pow2(n) == IF n = 0 THEN 1 ELSE 2 * Pow2(n - 1)

UsizeModulus == Pow2(UsizeBits)

\* ------------------------------------------------------------------ values

Null == [t |-> "null"]
Integer(n) == [t |-> "int", v |-> n]
Boolean(b) == [t |-> "bool", b |-> b]
Array(items) == [t |-> "arr", items |-> items]
\* entries: a sequence of [k, v] with distinct keys, in the object's iteration order
Object(entries) == [t |-> "obj", entries |-> entries]

IsInteger(v) == v.t = "int"
IsContainer(v) == v.t \in {"arr", "obj"}

\* the values held by a container's slots, in iteration order
Children(v) ==
    IF v.t = "arr" THEN v.items
    ELSE IF v.t = "obj" THEN [i \in 1..Len(v.entries) |-> v.entries[i].v]
    ELSE <<>>

\* the container v with slot i holding w
WithChild(v, i, w) ==
    IF v.t = "arr" THEN Array([v.items EXCEPT ![i] = w])
    ELSE Object([v.entries EXCEPT ![i] = [k |-> v.entries[i].k, v |-> w]])

RECURSIVE ValueAt(_, _)
ValueAt(v, path) ==
    IF path = <<>> THEN v ELSE ValueAt(Children(v)[Head(path)], Tail(path))

RECURSIVE ReplaceAt(_, _, _)
ReplaceAt(v, path, w) ==
    IF path = <<>> THEN w
    ELSE WithChild(v, Head(path), ReplaceAt(Children(v)[Head(path)], Tail(path), w))

Front(s) == SubSeq(s, 1, Len(s) - 1)
Last(s) == s[Len(s)]

\* ------------------------------------------------------------------ results

Ok(v) == [res |-> "ok", value |-> v]
Err(e) == [res |-> "err", error |-> e]
Panic == [res |-> "panic"]
\* an error that carries a message
ErrorMessage(m) == [message |-> m]
Pending == [res |-> "none"]

IsOk(r) == r.res = "ok"
IsErr(r) == r.res = "err"

\* ------------------------------------------------------------------ IterItem and ValueIter

KeyValue(key, value) == [t |-> "KeyValue", key |-> key, value |-> value]
IndexValue(index, value) == [t |-> "IndexValue", index |-> index, value |-> value]

\* the paths of v's own slots, below path p
SlotPaths(v, p) == [i \in 1..Len(Children(v)) |-> p \o <<i>>]

\* Value::into_iter(recursive): a scalar yields no item
into_iter(v, rec) == [value |-> v, queue |-> SlotPaths(v, <<>>), recursive |-> rec]

IterHasNext(it) == it.queue # <<>>

\* the item the iterator yields next: KeyValue for an object's slot, IndexValue for an array's
IterItem(it) ==
    LET p == Head(it.queue)
        parent == ValueAt(it.value, Front(p))
        i == Last(p)
    IN IF parent.t = "obj"
       THEN KeyValue(parent.entries[i].k, parent.entries[i].v)
       ELSE IndexValue(i - 1, parent.items[i])

\* the iterator after the yielded item's slot has been left holding w: a
\* recursive iterator descends into the slot next
IterAdvance(it, w) ==
    LET p == Head(it.queue)
    IN [value |-> ReplaceAt(it.value, p, w),
        queue |-> (IF it.recursive THEN SlotPaths(w, p) ELSE <<>>) \o Tail(it.queue),
        recursive |-> it.recursive]

\* From<ValueIter> for Value
IterIntoValue(it) == it.value

NoIter == [value |-> Null, queue |-> <<>>, recursive |-> FALSE]

\* ------------------------------------------------------------------ expressions and closures

\* an operand expression: what it resolves to and its static fallibility
Expr(outcome, fallible) == [outcome |-> outcome, fallible |-> fallible]
None == [some |-> FALSE]
Some(e) == [some |-> TRUE, expr |-> e]

\* Value::try_boolean
try_boolean(v) == IF v.t = "bool" THEN Ok(v.b) ELSE Err(ErrorMessage("expected boolean"))

ClosureError(value) == [closure_failed_on |-> value]

\* FunctionClosure::run_key_value: binds key and value, runs the body, discards its result
run_key_value(scope, closure, key, value) ==
    IF closure.body = "sum"
    THEN IF IsInteger(value)
         THEN [res |-> "ok", scope |-> [scope EXCEPT !.count = @ + value.v]]
         ELSE [res |-> "err", error |-> ClosureError(value)]
    ELSE [res |-> "ok", scope |-> scope]

\* FunctionClosure::run_index_value
run_index_value(scope, closure, index, value) ==
    IF closure.body = "sum"
    THEN IF IsInteger(value)
         THEN [res |-> "ok", scope |-> [scope EXCEPT !.count = @ + index + value.v]]
         ELSE [res |-> "err", error |-> ClosureError(value)]
    ELSE [res |-> "ok", scope |-> scope]

\* FunctionClosure::map_value: binds value, runs the body, leaves the body's result in the slot
map_value(scope, closure, value) ==
    IF closure.body = "inc_strict"
    THEN IF IsInteger(value) THEN Ok(Integer(value.v + 1)) ELSE Err(ClosureError(value))
    ELSE IF closure.body = "inc_if_int"
    THEN IF IsInteger(value) THEN Ok(Integer(value.v + 1)) ELSE Ok(value)
    ELSE Ok(value)

\* FunctionClosure::type_def
closure_type_def(closure) == [kind |-> "any", fallible |-> closure.fallible]

\* ------------------------------------------------------------------ inputs

Leaves == {Integer(1), Integer(2)}
Keys == {"a", "b"}

InnerValues ==
    { Array(<<>>), Array(<<Integer(1)>>), Array(<<Integer(2), Integer(1)>>),
      Object(<<>>), Object(<<[k |-> "a", v |-> Integer(2)]>>),
      Object(<<[k |-> "b", v |-> Integer(1)], [k |-> "a", v |-> Integer(1)]>>) }

Elems == Leaves \cup InnerValues

SeqsUpTo(S, n) == UNION {[1..k -> S] : k \in 0..n}

KeySeqs == {ks \in SeqsUpTo(Keys, MaxLen) :
               \A i, j \in 1..Len(ks) : i # j => ks[i] # ks[j]}

Arrays == {Array(s) : s \in SeqsUpTo(Elems, MaxLen)}

Objects ==
    UNION {{Object([i \in 1..Len(ks) |-> [k |-> ks[i], v |-> vs[i]]]) :
               vs \in [1..Len(ks) -> Elems]} : ks \in KeySeqs}

\* the examples of ForEach::examples and MapValues::examples
ExampleObject == Object(<<[k |-> "a", v |-> Integer(1)], [k |-> "b", v |-> Integer(2)]>>)
ExampleArray == Array(<<Integer(1), Integer(2), Integer(3)>>)
ExampleNested ==
    Object(<<[k |-> "a", v |-> Integer(1)],
             [k |-> "b", v |-> Array(<<Object(<<[k |-> "c", v |-> Integer(2)]>>),
                                       Object(<<[k |-> "d", v |-> Integer(3)]>>)>>)],
             [k |-> "e", v |-> Object(<<[k |-> "f", v |-> Integer(4)]>>)]>>)
ExampleNestedMapped ==
    Object(<<[k |-> "a", v |-> Integer(2)],
             [k |-> "b", v |-> Array(<<Object(<<[k |-> "c", v |-> Integer(3)]>>),
                                       Object(<<[k |-> "d", v |-> Integer(4)]>>)>>)],
             [k |-> "e", v |-> Object(<<[k |-> "f", v |-> Integer(5)]>>)]>>)
\* three entries of which the closure body fails on the second
ExampleFailSecond == Array(<<Integer(1), Null, Integer(2)>>)

Targets ==
    Arrays \cup Objects
    \cup {ExampleObject, ExampleArray, ExampleNested, ExampleFailSecond, Integer(1)}

ValueErr == Err(ErrorMessage("value failed"))
RecursiveErr == Err(ErrorMessage("recursive failed"))

ValueExprs == {Expr(Ok(v), FALSE) : v \in Targets} \cup {Expr(ValueErr, TRUE)}

RecursiveExprs ==
    { None,
      Some(Expr(Ok(Boolean(TRUE)), FALSE)),
      Some(Expr(Ok(Boolean(FALSE)), FALSE)),
      Some(Expr(Ok(Integer(1)), FALSE)),
      Some(Expr(RecursiveErr, TRUE)) }

ForEachClosures == {[body |-> "noop", fallible |-> FALSE], [body |-> "sum", fallible |-> TRUE]}

MapValuesClosures ==
    { [body |-> "identity", fallible |-> FALSE],
      [body |-> "inc_if_int", fallible |-> FALSE],
      [body |-> "inc_strict", fallible |-> TRUE] }

InitCounts == {0, 10}

\* the nodes ForEach::compile and MapValues::compile build
ForEachFn(value, closure) ==
    [fn |-> "for_each", value |-> value, recursive |-> None, closure |-> closure]
MapValuesFn(value, rec, closure) ==
    [fn |-> "map_values", value |-> value, recursive |-> rec, closure |-> closure]

ResolveNodes ==
    {ForEachFn(v, c) : v \in ValueExprs, c \in ForEachClosures}
    \cup {MapValuesFn(v, r, c) : v \in ValueExprs, r \in RecursiveExprs, c \in MapValuesClosures}

\* nodes for type_def: the static fallibility of every part ranges freely
TypeNodes ==
    {ForEachFn(Expr(Ok(ExampleObject), vf), [body |-> "noop", fallible |-> cf]) :
        vf \in BOOLEAN, cf \in BOOLEAN}
    \cup {MapValuesFn(Expr(Ok(ExampleObject), vf), r, [body |-> "identity", fallible |-> cf]) :
            vf \in BOOLEAN, cf \in BOOLEAN,
            r \in {None} \cup {Some(Expr(Ok(Boolean(TRUE)), rf)) : rf \in BOOLEAN}}

NoNode == ForEachFn(Expr(Ok(Null), FALSE), [body |-> "noop", fallible |-> FALSE])

\* RequestMetadata::new
RequestMetadata(ec, ebs, res, rws) ==
    [event_count |-> ec, events_byte_size |-> ebs,
     request_encoded_size |-> res, request_wire_size |-> rws]

SizeSamples == {1, UsizeModulus \div 2}

Metadatas == {RequestMetadata(a, b, c, d) :
                 a \in SizeSamples, b \in SizeSamples, c \in SizeSamples, d \in SizeSamples}

ZeroAcc == RequestMetadata(0, 0, 0, 0)

\* ------------------------------------------------------------------ initial states

NoCtx == [count |-> 0]

InitCommon ==
    /\ pc = "start"
    /\ recursive = FALSE
    /\ iter = NoIter
    /\ result = Pending
    /\ calls = <<>>
    /\ trace = <<>>
    /\ acc = ZeroAcc
    /\ idx = 1

InitResolve ==
    /\ entry = "resolve"
    /\ node \in ResolveNodes
    /\ ctx \in {[count |-> c] : c \in InitCounts}
    /\ ctx0 = ctx
    /\ metadata_vec = <<>>
    /\ overflow_checks = FALSE

InitTypeDef ==
    /\ entry = "type_def"
    /\ node \in TypeNodes
    /\ ctx = NoCtx
    /\ ctx0 = ctx
    /\ metadata_vec = <<>>
    /\ overflow_checks = FALSE

InitCallByVm ==
    /\ entry = "call_by_vm"
    /\ node \in {ForEachFn(Expr(Ok(v), FALSE), c) : v \in {ExampleObject, ExampleArray},
                                                      c \in ForEachClosures}
            \cup {MapValuesFn(Expr(Ok(v), FALSE), None, c) : v \in {ExampleObject, ExampleArray},
                                                             c \in MapValuesClosures}
    /\ ctx = NoCtx
    /\ ctx0 = ctx
    /\ metadata_vec = <<>>
    /\ overflow_checks = FALSE

InitFromBatch ==
    /\ entry = "from_batch"
    /\ node = NoNode
    /\ ctx = NoCtx
    /\ ctx0 = ctx
    /\ metadata_vec \in SeqsUpTo(Metadatas, MaxBatch)
    /\ overflow_checks \in BOOLEAN

Init ==
    /\ InitCommon
    /\ \/ InitResolve
       \/ InitTypeDef
       \/ InitCallByVm
       \/ InitFromBatch

\* ------------------------------------------------------------------ ForEach

VmUnavailable == Err(ErrorMessage("function currently unavailable in VM runtime"))

\* ForEach::call_by_vm
ForEachCallByVm ==
    /\ entry = "call_by_vm" /\ node.fn = "for_each" /\ pc = "start"
    /\ result' = VmUnavailable
    /\ pc' = "done"
    /\ UNCHANGED <<entry, node, ctx, ctx0, recursive, iter, calls, trace,
                   metadata_vec, overflow_checks, acc, idx>>

\* a slip: the iterator is asked to recurse
ForEachResolveValueRecursive ==
    /\ entry = "resolve" /\ node.fn = "for_each" /\ pc = "start"
    /\ trace' = Append(trace, "value")
    /\ IF IsErr(node.value.outcome)
       THEN /\ result' = node.value.outcome
            /\ pc' = "done"
            /\ iter' = iter
       ELSE /\ iter' = into_iter(node.value.outcome.value, TRUE)
            /\ pc' = "loop"
            /\ result' = result
    /\ UNCHANGED <<entry, node, ctx, ctx0, recursive, calls,
                   metadata_vec, overflow_checks, acc, idx>>

\* ForEachFn::resolve, `let value = self.value.resolve(ctx)?; let mut iter = value.into_iter(false);`
ForEachResolveValue ==
    /\ entry = "resolve" /\ node.fn = "for_each" /\ pc = "start"
    /\ trace' = Append(trace, "value")
    /\ IF IsErr(node.value.outcome)
       THEN /\ result' = node.value.outcome
            /\ pc' = "done"
            /\ iter' = iter
       ELSE /\ iter' = into_iter(node.value.outcome.value, FALSE)
            /\ pc' = "loop"
            /\ result' = result
    /\ UNCHANGED <<entry, node, ctx, ctx0, recursive, calls,
                   metadata_vec, overflow_checks, acc, idx>>

\* what the match of ForEachFn::resolve does with one item
ForEachDispatch(item) ==
    IF item.t = "KeyValue" THEN run_key_value(ctx, node.closure, item.key, item.value)
    ELSE IF item.t = "IndexValue" THEN run_index_value(ctx, node.closure, item.index, item.value)
    ELSE [res |-> "ok", scope |-> ctx]

\* a slip: the closure's error is dropped and the loop goes on
ForEachLoopNoAbort ==
    /\ entry = "resolve" /\ node.fn = "for_each" /\ pc = "loop"
    /\ IterHasNext(iter)
    /\ LET item == IterItem(iter)
           r == ForEachDispatch(item)
       IN /\ calls' = Append(calls, item)
          /\ ctx' = IF r.res = "err" THEN ctx ELSE r.scope
          /\ iter' = IterAdvance(iter, item.value)
          /\ UNCHANGED <<pc, result>>
    /\ UNCHANGED <<entry, node, ctx0, recursive, trace,
                   metadata_vec, overflow_checks, acc, idx>>

\* a slip: indexed items fall through to the `_ => {}` arm
ForEachLoopSkipsIndexed ==
    /\ entry = "resolve" /\ node.fn = "for_each" /\ pc = "loop"
    /\ IterHasNext(iter)
    /\ LET item == IterItem(iter)
           r == IF item.t = "KeyValue"
                THEN run_key_value(ctx, node.closure, item.key, item.value)
                ELSE [res |-> "ok", scope |-> ctx]
       IN /\ calls' = IF item.t = "KeyValue" THEN Append(calls, item) ELSE calls
          /\ IF r.res = "err"
             THEN /\ result' = Err(r.error)
                  /\ pc' = "done"
                  /\ UNCHANGED <<ctx, iter>>
             ELSE /\ ctx' = r.scope
                  /\ iter' = IterAdvance(iter, item.value)
                  /\ UNCHANGED <<pc, result>>
    /\ UNCHANGED <<entry, node, ctx0, recursive, trace,
                   metadata_vec, overflow_checks, acc, idx>>

\* ForEachFn::resolve, one turn of `for item in iter.by_ref() { match item { ... }? }`
ForEachLoop ==
    /\ entry = "resolve" /\ node.fn = "for_each" /\ pc = "loop"
    /\ IterHasNext(iter)
    /\ LET item == IterItem(iter)
           r == ForEachDispatch(item)
       IN /\ calls' = Append(calls, item)
          /\ IF r.res = "err"
             THEN /\ result' = Err(r.error)
                  /\ pc' = "done"
                  /\ UNCHANGED <<ctx, iter>>
             ELSE /\ ctx' = r.scope
                  /\ iter' = IterAdvance(iter, item.value)
                  /\ UNCHANGED <<pc, result>>
    /\ UNCHANGED <<entry, node, ctx0, recursive, trace,
                   metadata_vec, overflow_checks, acc, idx>>

\* a slip: the iterated value is handed back, as map_values does
ForEachReturnsContainer ==
    /\ entry = "resolve" /\ node.fn = "for_each" /\ pc = "loop"
    /\ ~IterHasNext(iter)
    /\ result' = Ok(IterIntoValue(iter))
    /\ pc' = "done"
    /\ UNCHANGED <<entry, node, ctx, ctx0, recursive, iter, calls, trace,
                   metadata_vec, overflow_checks, acc, idx>>

\* ForEachFn::resolve, `Ok(Value::Null)` once the iterator is exhausted
ForEachReturn ==
    /\ entry = "resolve" /\ node.fn = "for_each" /\ pc = "loop"
    /\ ~IterHasNext(iter)
    /\ result' = Ok(Null)
    /\ pc' = "done"
    /\ UNCHANGED <<entry, node, ctx, ctx0, recursive, iter, calls, trace,
                   metadata_vec, overflow_checks, acc, idx>>

\* a slip: the node is reported infallible
ForEachTypeDefInfallible(n) == [kind |-> "null", fallible |-> FALSE]

\* ForEachFn::type_def
ForEachTypeDefOf(n) ==
    [kind |-> "null", fallible |-> closure_type_def(n.closure).fallible]

ForEachTypeDef ==
    /\ entry = "type_def" /\ node.fn = "for_each" /\ pc = "start"
    /\ result' = [res |-> "type_def", type_def |-> ForEachTypeDefOf(node)]
    /\ pc' = "done"
    /\ UNCHANGED <<entry, node, ctx, ctx0, recursive, iter, calls, trace,
                   metadata_vec, overflow_checks, acc, idx>>

\* ------------------------------------------------------------------ MapValues

\* MapValues::call_by_vm: `todo!()` panics
MapValuesCallByVm ==
    /\ entry = "call_by_vm" /\ node.fn = "map_values" /\ pc = "start"
    /\ result' = Panic
    /\ pc' = "done"
    /\ UNCHANGED <<entry, node, ctx, ctx0, recursive, iter, calls, trace,
                   metadata_vec, overflow_checks, acc, idx>>

\* what `expr.resolve(ctx)?.try_boolean()?` gives
ResolveBoolean(e) == IF IsErr(e.outcome) THEN e.outcome ELSE try_boolean(e.outcome.value)

\* a slip: a failing recursive expression is taken as false
MapValuesResolveRecursiveLenient ==
    /\ entry = "resolve" /\ node.fn = "map_values" /\ pc = "start"
    /\ IF node.recursive.some
       THEN LET r == ResolveBoolean(node.recursive.expr)
            IN /\ trace' = Append(trace, "recursive")
               /\ recursive' = IF IsErr(r) THEN FALSE ELSE r.value
       ELSE /\ recursive' = FALSE
            /\ trace' = trace
    /\ pc' = "value"
    /\ UNCHANGED <<entry, node, ctx, ctx0, iter, result, calls,
                   metadata_vec, overflow_checks, acc, idx>>

\* MapValuesFn::resolve, `let recursive = match &self.recursive { ... };`
MapValuesResolveRecursive ==
    /\ entry = "resolve" /\ node.fn = "map_values" /\ pc = "start"
    /\ IF node.recursive.some
       THEN LET r == ResolveBoolean(node.recursive.expr)
            IN /\ trace' = Append(trace, "recursive")
               /\ IF IsErr(r)
                  THEN /\ result' = r
                       /\ pc' = "done"
                       /\ recursive' = recursive
                  ELSE /\ recursive' = r.value
                       /\ pc' = "value"
                       /\ result' = result
       ELSE /\ recursive' = FALSE
            /\ pc' = "value"
            /\ UNCHANGED <<trace, result>>
    /\ UNCHANGED <<entry, node, ctx, ctx0, iter, calls,
                   metadata_vec, overflow_checks, acc, idx>>

\* a slip: the recursive flag is not handed to the iterator
MapValuesResolveValueFlat ==
    /\ entry = "resolve" /\ node.fn = "map_values" /\ pc = "value"
    /\ trace' = Append(trace, "value")
    /\ IF IsErr(node.value.outcome)
       THEN /\ result' = node.value.outcome
            /\ pc' = "done"
            /\ iter' = iter
       ELSE /\ iter' = into_iter(node.value.outcome.value, FALSE)
            /\ pc' = "loop"
            /\ result' = result
    /\ UNCHANGED <<entry, node, ctx, ctx0, recursive, calls,
                   metadata_vec, overflow_checks, acc, idx>>

\* MapValuesFn::resolve, `let value = self.value.resolve(ctx)?; let mut iter = value.into_iter(recursive);`
MapValuesResolveValue ==
    /\ entry = "resolve" /\ node.fn = "map_values" /\ pc = "value"
    /\ trace' = Append(trace, "value")
    /\ IF IsErr(node.value.outcome)
       THEN /\ result' = node.value.outcome
            /\ pc' = "done"
            /\ iter' = iter
       ELSE /\ iter' = into_iter(node.value.outcome.value, recursive)
            /\ pc' = "loop"
            /\ result' = result
    /\ UNCHANGED <<entry, node, ctx, ctx0, recursive, calls,
                   metadata_vec, overflow_checks, acc, idx>>

\* MapValuesFn::resolve, one turn of `for item in iter.by_ref() { ...; self.closure.map_value(ctx, value)?; }`
MapValuesLoop ==
    /\ entry = "resolve" /\ node.fn = "map_values" /\ pc = "loop"
    /\ IterHasNext(iter)
    /\ LET item == IterItem(iter)
           r == map_value(ctx, node.closure, item.value)
       IN /\ calls' = Append(calls, item)
          /\ IF IsErr(r)
             THEN /\ result' = r
                  /\ pc' = "done"
                  /\ iter' = iter
             ELSE /\ iter' = IterAdvance(iter, r.value)
                  /\ UNCHANGED <<pc, result>>
    /\ UNCHANGED <<entry, node, ctx, ctx0, recursive, trace,
                   metadata_vec, overflow_checks, acc, idx>>

\* a slip: null is handed back, as for_each does
MapValuesReturnsNull ==
    /\ entry = "resolve" /\ node.fn = "map_values" /\ pc = "loop"
    /\ ~IterHasNext(iter)
    /\ result' = Ok(Null)
    /\ pc' = "done"
    /\ UNCHANGED <<entry, node, ctx, ctx0, recursive, iter, calls, trace,
                   metadata_vec, overflow_checks, acc, idx>>

\* MapValuesFn::resolve, `Ok(iter.into())` once the iterator is exhausted
MapValuesReturn ==
    /\ entry = "resolve" /\ node.fn = "map_values" /\ pc = "loop"
    /\ ~IterHasNext(iter)
    /\ result' = Ok(IterIntoValue(iter))
    /\ pc' = "done"
    /\ UNCHANGED <<entry, node, ctx, ctx0, recursive, iter, calls, trace,
                   metadata_vec, overflow_checks, acc, idx>>

\* MapValuesFn::type_def
MapValuesTypeDefOf(n) ==
    [kind |-> "object", fallible |-> closure_type_def(n.closure).fallible]

MapValuesTypeDef ==
    /\ entry = "type_def" /\ node.fn = "map_values" /\ pc = "start"
    /\ result' = [res |-> "type_def", type_def |-> MapValuesTypeDefOf(node)]
    /\ pc' = "done"
    /\ UNCHANGED <<entry, node, ctx, ctx0, recursive, iter, calls, trace,
                   metadata_vec, overflow_checks, acc, idx>>

\* ------------------------------------------------------------------ RequestMetadata::from_batch

\* a slip: the wire size accumulates the encoded size
AddMetadataWrongField(a, m) ==
    RequestMetadata(a.event_count + m.event_count,
                    a.events_byte_size + m.events_byte_size,
                    a.request_encoded_size + m.request_encoded_size,
                    a.request_wire_size + m.request_encoded_size)

\* the four `+=` of one turn of the loop, before the word width is applied
AddMetadata(a, m) ==
    RequestMetadata(a.event_count + m.event_count,
                    a.events_byte_size + m.events_byte_size,
                    a.request_encoded_size + m.request_encoded_size,
                    a.request_wire_size + m.request_wire_size)

Overflows(r) ==
    \/ r.event_count >= UsizeModulus
    \/ r.events_byte_size >= UsizeModulus
    \/ r.request_encoded_size >= UsizeModulus
    \/ r.request_wire_size >= UsizeModulus

Wrapped(r) ==
    RequestMetadata(r.event_count % UsizeModulus,
                    r.events_byte_size % UsizeModulus,
                    r.request_encoded_size % UsizeModulus,
                    r.request_wire_size % UsizeModulus)

\* one turn of `for m in metadata_vec { ... += ... }`: an overflowing `+=` panics
\* in a build that checks overflow and wraps in one that does not
FromBatchStep ==
    /\ entry = "from_batch" /\ pc = "start"
    /\ idx <= Len(metadata_vec)
    /\ LET sum == AddMetadata(acc, metadata_vec[idx])
       IN IF overflow_checks /\ Overflows(sum)
          THEN /\ result' = Panic
               /\ pc' = "done"
               /\ UNCHANGED <<acc, idx>>
          ELSE /\ acc' = Wrapped(sum)
               /\ idx' = idx + 1
               /\ UNCHANGED <<pc, result>>
    /\ UNCHANGED <<entry, node, ctx, ctx0, recursive, iter, calls, trace,
                   metadata_vec, overflow_checks>>

\* `Self { event_count, events_byte_size, request_encoded_size, request_wire_size }`
FromBatchReturn ==
    /\ entry = "from_batch" /\ pc = "start"
    /\ idx > Len(metadata_vec)
    /\ result' = Ok(acc)
    /\ pc' = "done"
    /\ UNCHANGED <<entry, node, ctx, ctx0, recursive, iter, calls, trace,
                   metadata_vec, overflow_checks, acc, idx>>

\* ------------------------------------------------------------------ specification

Next ==
    \/ ForEachCallByVm
    \/ ForEachResolveValue
    \/ ForEachLoop
    \/ ForEachReturn
    \/ ForEachTypeDef
    \/ MapValuesCallByVm
    \/ MapValuesResolveRecursive
    \/ MapValuesResolveValue
    \/ MapValuesLoop
    \/ MapValuesReturn
    \/ MapValuesTypeDef
    \/ FromBatchStep
    \/ FromBatchReturn

Spec == Init /\ [][Next]_vars

\* ------------------------------------------------------------------ what the claims speak of

InResolve(fn) == entry = "resolve" /\ node.fn = fn
TargetResolves == IsOk(node.value.outcome)
Target == node.value.outcome.value
Done == pc = "done"

\* the items a non-recursive traversal of v owes its consumer
TopLevelItem(v, i) ==
    IF v.t = "arr" THEN IndexValue(i - 1, v.items[i])
    ELSE KeyValue(v.entries[i].k, v.entries[i].v)

\* whether the closure body fails on the value of this invocation
CallFails(call) ==
    /\ node.closure.body \in {"sum", "inc_strict"}
    /\ ~IsInteger(call.value)

\* what one successful invocation of the sum closure adds to count
Contribution(call) ==
    IF node.closure.body # "sum" THEN 0
    ELSE IF call.t = "IndexValue" THEN call.index + call.value.v
    ELSE call.value.v

RECURSIVE SumContributions(_, _)
SumContributions(cs, n) ==
    IF n = 0 THEN 0 ELSE SumContributions(cs, n - 1) + Contribution(cs[n])

\* C1: every VM invocation of for_each and of map_values returns the distinct
\* "unavailable in VM runtime" error: it never panics and never returns a value.
C1_VmInvocationReturnsUnavailable ==
    (entry = "call_by_vm" /\ Done) => result = VmUnavailable

\* C2: when the closure fails on the k-th item, that invocation is the last one
\* made, the call is over, the caller holds exactly that invocation's error and
\* the scope holds the effects of the invocations before it only.
C2_FirstClosureErrorAborts ==
    entry = "resolve" =>
        \A k \in 1..Len(calls) :
            CallFails(calls[k]) =>
                /\ k = Len(calls)
                /\ Done
                /\ result = Err(ClosureError(calls[k].value))
                /\ ctx.count = ctx0.count + SumContributions(calls, k - 1)

C2_Witness ==
    /\ InResolve("for_each") /\ Done
    /\ TargetResolves /\ Target = ExampleFailSecond
    /\ node.closure.body = "sum"
    /\ Len(calls) = 2
    /\ IsErr(result)
    /\ ctx.count = ctx0.count + 1

\* C3: for_each invokes its closure once per top-level entry, in iteration
\* order, with index i and element A[i] for an array and key and value for an
\* object; a successful call has made exactly as many invocations as there are
\* top-level entries, so no nested entry is ever passed.
C3_ForEachVisitsTopLevelInOrder ==
    (InResolve("for_each") /\ TargetResolves) =>
        /\ Len(calls) <= Len(Children(Target))
        /\ \A i \in 1..Len(calls) : calls[i] = TopLevelItem(Target, i)
        /\ (Done /\ IsOk(result)) => Len(calls) = Len(Children(Target))

C3_Witness ==
    /\ InResolve("for_each") /\ Done /\ IsOk(result)
    /\ TargetResolves /\ Target.t = "arr"
    /\ Len(calls) = 2
    /\ IsContainer(calls[1].value) /\ Len(Children(calls[1].value)) = 2
    /\ calls[2] = IndexValue(1, Integer(2))

\* C4: when the target resolves and every closure invocation succeeds, for_each
\* returns null whatever the target and the closure; with a closure that does
\* nothing the scope stays as it was on entry.
C4_ForEachReturnsNull ==
    InResolve("for_each") =>
        /\ (Done /\ TargetResolves /\ \A i \in 1..Len(calls) : ~CallFails(calls[i]))
              => result = Ok(Null)
        /\ node.closure.body = "noop" => ctx = ctx0

C4_Witness ==
    /\ InResolve("for_each") /\ Done
    /\ TargetResolves /\ Target.t = "obj"
    /\ node.closure.body = "sum"
    /\ Len(calls) = 2
    /\ ctx # ctx0
    /\ result = Ok(Null)

\* the sum of the values of an array or object of integers
RECURSIVE SumValues(_, _)
SumValues(vs, n) == IF n = 0 THEN 0 ELSE SumValues(vs, n - 1) + vs[n].v

\* the sum of the indices 0..n-1
RECURSIVE SumIndices(_)
SumIndices(n) == IF n = 0 THEN 0 ELSE SumIndices(n - 1) + (n - 1)

\* C5: with the body count = count + value (object) or count = count + index +
\* value (array), every invocation sees the count its predecessors left, and
\* after for_each has returned count is its initial value plus the sum of all
\* values (and of all indices for an array): 3 for {a:1,b:2}, 9 for [1,2,3].
C5_ForEachAccumulates ==
    (InResolve("for_each") /\ node.closure.body = "sum" /\ TargetResolves) =>
        /\ pc = "loop" =>
              ctx.count = ctx0.count + SumValues(Children(Target), Len(calls))
                          + (IF Target.t = "arr" THEN SumIndices(Len(calls)) ELSE 0)
        /\ (Done /\ IsOk(result)) =>
              ctx.count = ctx0.count + SumValues(Children(Target), Len(Children(Target)))
                          + (IF Target.t = "arr" THEN SumIndices(Len(Children(Target))) ELSE 0)
        /\ (Done /\ ctx0.count = 0 /\ Target = ExampleObject) => ctx.count = 3
        /\ (Done /\ ctx0.count = 0 /\ Target = ExampleArray) => ctx.count = 9

C5_Witness ==
    /\ InResolve("for_each") /\ Done /\ IsOk(result)
    /\ node.closure.body = "sum"
    /\ TargetResolves /\ Target = ExampleArray
    /\ ctx0.count = 0 /\ ctx.count = 9

\* whether the recursive operand is absent or resolves to a boolean
RecursiveResolves ==
    ~node.recursive.some \/ IsOk(ResolveBoolean(node.recursive.expr))

\* the flag the recursive operand stands for
RecursiveFlag ==
    IF node.recursive.some THEN ResolveBoolean(node.recursive.expr).value ELSE FALSE

\* C6: for every object O, map_values(O) with the identity closure returns a
\* value equal to O (same keys, same order, same values), with recursive
\* absent, false and true alike.
C6_MapValuesIdentity ==
    (InResolve("map_values") /\ Done /\ node.closure.body = "identity"
        /\ RecursiveResolves /\ TargetResolves /\ Target.t = "obj")
    => result = Ok(Target)

C6_Witness ==
    /\ InResolve("map_values") /\ Done
    /\ node.closure.body = "identity"
    /\ RecursiveResolves /\ RecursiveFlag
    /\ TargetResolves /\ Target = ExampleNested
    /\ Len(calls) = 8
    /\ result = Ok(ExampleNested)

\* the closure's result for one value it succeeds on
ClosureResult(v) == map_value(ctx, node.closure, v).value

\* v with every leaf, at every depth, replaced by the closure's result for it
RECURSIVE LeavesMapped(_)
LeavesMapped(v) ==
    IF v.t = "arr" THEN Array([i \in 1..Len(v.items) |-> LeavesMapped(v.items[i])])
    ELSE IF v.t = "obj"
    THEN Object([i \in 1..Len(v.entries) |->
                    [k |-> v.entries[i].k, v |-> LeavesMapped(v.entries[i].v)]])
    ELSE ClosureResult(v)

\* v with the value of every top-level slot replaced by the closure's result for it
TopLevelMapped(v) ==
    IF v.t = "arr" THEN Array([i \in 1..Len(v.items) |-> ClosureResult(v.items[i])])
    ELSE IF v.t = "obj"
    THEN Object([i \in 1..Len(v.entries) |->
                    [k |-> v.entries[i].k, v |-> ClosureResult(v.entries[i].v)]])
    ELSE v

\* the leaves of v, left to right
RECURSIVE LeavesOf(_)
RECURSIVE LeavesOfAll(_, _)
LeavesOf(v) == IF IsContainer(v) THEN LeavesOfAll(Children(v), Len(Children(v))) ELSE <<v>>
LeavesOfAll(vs, n) == IF n = 0 THEN <<>> ELSE LeavesOfAll(vs, n - 1) \o LeavesOf(vs[n])

\* the leaves handed to the closure so far, in order
LeafCalls ==
    LET leafCalls == SelectSeq(calls, LAMBDA c : ~IsContainer(c.value))
    IN [i \in 1..Len(leafCalls) |-> leafCalls[i].value]

RECURSIVE SumOfBatch(_, _)
SumOfBatch(ms, n) ==
    IF n = 0 THEN [event_count |-> 0, events_byte_size |-> 0,
                   request_encoded_size |-> 0, request_wire_size |-> 0]
    ELSE LET s == SumOfBatch(ms, n - 1)
         IN [event_count |-> s.event_count + ms[n].event_count,
             events_byte_size |-> s.events_byte_size + ms[n].events_byte_size,
             request_encoded_size |-> s.request_encoded_size + ms[n].request_encoded_size,
             request_wire_size |-> s.request_wire_size + ms[n].request_wire_size]

BatchSum == SumOfBatch(metadata_vec, Len(metadata_vec))

\* C8 as stated: from_batch returns the element-wise sum for every sequence,
\* with no failure, also when a sum exceeds the usize range.
C8_FromBatchAlwaysSums ==
    (entry = "from_batch" /\ Done) => result = Ok(BatchSum)

\* C8 as amended: from_batch returns the element-wise sum (all zeros for the
\* empty sequence) whenever every field's sum fits in usize; when a sum does
\* not fit, it panics in a build that checks overflow and returns each sum
\* modulo 2^w in one that does not.
C8_FromBatchSumsWithinUsize ==
    (entry = "from_batch" /\ Done) =>
        IF ~Overflows(BatchSum) THEN result = Ok(BatchSum)
        ELSE IF overflow_checks THEN result = Panic
        ELSE result = Ok(Wrapped(BatchSum))

C8_Witness ==
    /\ entry = "from_batch" /\ Done
    /\ Len(metadata_vec) = 2
    /\ metadata_vec[1] # metadata_vec[2]
    /\ ~Overflows(BatchSum)
    /\ BatchSum.event_count # BatchSum.request_wire_size
    /\ result = Ok(BatchSum)

InTrace(e) == \E i \in 1..Len(trace) : trace[i] = e

\* C9 as stated: map_values evaluates the target first and the recursive flag
\* second, so a failing target leaves the recursive expression unevaluated and
\* its error is the one the caller receives.
C9_TargetBeforeRecursive ==
    InResolve("map_values") =>
        /\ trace # <<>> => trace[1] = "value"
        /\ ~TargetResolves => ~InTrace("recursive")
        /\ (Done /\ ~TargetResolves) => result = node.value.outcome

\* C9 as amended: map_values evaluates the recursive flag first (false when
\* absent), then the target, then obtains the iterator; so when the recursive
\* expression fails (or yields no boolean) the target has not been evaluated,
\* and when both would fail the caller receives the recursive expression's error.
C9_RecursiveBeforeTarget ==
    InResolve("map_values") =>
        /\ (node.recursive.some /\ trace # <<>>) => trace[1] = "recursive"
        /\ ~RecursiveResolves => ~InTrace("value")
        /\ (Done /\ ~RecursiveResolves) => result = ResolveBoolean(node.recursive.expr)
        /\ (Done /\ RecursiveResolves /\ ~TargetResolves) => result = node.value.outcome
        /\ pc = "loop" =>
              /\ trace = (IF node.recursive.some THEN <<"recursive">> ELSE <<>>) \o <<"value">>
              /\ iter.recursive = RecursiveFlag

C9_Witness ==
    /\ InResolve("map_values") /\ Done
    /\ node.recursive.some /\ node.recursive.expr.outcome = RecursiveErr
    /\ node.value.outcome = ValueErr
    /\ trace = <<"recursive">>
    /\ result = RecursiveErr

\* the fallibility of everything the node depends on
AnyPartFallible ==
    \/ node.value.fallible
    \/ (node.recursive.some /\ node.recursive.expr.fallible)
    \/ node.closure.fallible

\* C10 as stated: the TypeDef of a for_each or map_values node is fallible
\* exactly when the target expression, the recursive expression or the closure
\* body is fallible.
C10_FallibleIfAnyPartIs ==
    (entry = "type_def" /\ Done) => result.type_def.fallible = AnyPartFallible

\* C10 as amended: the TypeDef of a for_each or map_values node is fallible
\* exactly when the closure body is fallible, whatever the fallibility of the
\* target expression and of the recursive expression.
C10_FallibleIffClosureIs ==
    (entry = "type_def" /\ Done) => result.type_def.fallible = node.closure.fallible

C10_Witness ==
    /\ entry = "type_def" /\ Done
    /\ node.fn = "map_values"
    /\ node.value.fallible
    /\ node.recursive.some /\ node.recursive.expr.fallible
    /\ ~node.closure.fallible
    /\ ~result.type_def.fallible

====
